---- MODULE Spec2Model ----
(***************************************************************************)
(* The notebook cell 90d7cddc of src/preprocessing/dask_ml.ipynb as a      *)
(* state machine: one action per statement of the cell (lines 33-59).      *)
(* The cell only calls dask, pandas and scikit-learn; each call is         *)
(* modelled by what the called routine does with the arguments the cell    *)
(* passes (frac=0.2, test_size=0.2, random_state=42, max_features=1000).   *)
(*                                                                         *)
(* Values.  A word is an integer: k > 0 is a lower-case word of two or     *)
(* more characters, -k is the same word with capital letters, 0 is a       *)
(* one-character word.  A text is the bag of its words (word |-> number   *)
(* of occurrences): the analyzer of the vectorizer is a unigram one.       *)
(* A CSV cell is a record [t, v]: t is "na" (missing), "int", "digits" (a  *)
(* string that is an integer literal), "str" (any other string; v is its   *)
(* text) or "num" (a number in the review column).                         *)
(***************************************************************************)
EXTENDS Integers, Sequences, FiniteSets, TLC

VARIABLES
    file,          \* output.csv on disk: [exists, columns, rows, blocksize]
    written,       \* the names of the files the kernel has written
    reruns,        \* how many more times the user will execute the cell
    previous,      \* what the previous execution of the cell left, if any
    pc,            \* the statement to execute next, "done" or "failed"
    executed,      \* the statements this execution has completed, in order
    failure,       \* the statement that raised, or "none"
    mt19937,       \* the permutations seeded generators have produced
    lbfgs,         \* the labels fitted classifiers have produced
    df,            \* the lazy dask dataframe: [columns, partitions, subset]
    df_sample,     \* the materialized sample: a sequence of rows
    X_raw, y,      \* the review and the label series of the sample
    X_train_raw, X_test_raw, y_train, y_test,
    vectorizer,    \* the TfidfVectorizer: [fitted, vocabulary, n_docs, df]
    X_train, X_test,
    model,         \* the LogisticRegression: [fitted, classes, X, y]
    y_pred,
    stdout         \* what this execution of the cell has printed

data == <<df, df_sample, X_raw, y, X_train_raw, X_test_raw, y_train, y_test,
          vectorizer, X_train, X_test, model, y_pred>>

vars == <<file, written, reruns, previous, pc, executed, failure, mt19937,
          lbfgs, data, stdout>>

----------------------------------------------------------------------------
(* Bounds of the model *)

MaxRows == 9

SmallBlock == 3

(* Program constants *)

max_features == 1000

random_state == 42

(* frac=0.2 is the fraction 1/FracDen *)
FracDen == 5

(* test_size=0.2 is the fraction 1/TestSizeDen *)
TestSizeDen == 5

----------------------------------------------------------------------------
(* Cells and texts.  Words: 1 "good", 2 "film", 3 "bad", 4 "nan", 5 and up *)
(* the words of a long review; 0 is a one-character word.                  *)

NA == [t |-> "na", v |-> <<>>]

IntCell(n) == [t |-> "int", v |-> <<n>>]

DigitsCell(n) == [t |-> "digits", v |-> <<n>>]

StrCell(text) == [t |-> "str", v |-> text]

NumCell(n) == [t |-> "num", v |-> <<n>>]

TextPos == (-1 :> 1) @@ (2 :> 1)

TextNeg == (3 :> 2) @@ (2 :> 1) @@ (0 :> 1)

TextShort == (0 :> 3)

TextLong == [w \in 5..(max_features + 5) |-> 1]

Row(review, sentiment) == [review |-> review, sentiment |-> sentiment]

(* A regular row of a corpus: reviews alternate, labels alternate in a     *)
(* balanced corpus and are all 1 in a one-class corpus.                    *)
StdRow(pattern, i) ==
    IF i % 2 = 1
    THEN Row(StrCell(TextPos), IntCell(1))
    ELSE Row(StrCell(TextNeg), IntCell(IF pattern = "balanced" THEN 0 ELSE 1))

Patterns == {"balanced", "oneclass"}

(* The irregular rows a file may hold *)
IrregularRows ==
    { Row(NA, IntCell(1)),
      Row(StrCell(TextPos), NA),
      Row(StrCell(TextPos), StrCell(TextNeg)),
      Row(StrCell(TextNeg), DigitsCell(0)),
      Row(StrCell(TextShort), IntCell(0)),
      Row(NumCell(7), IntCell(1)),
      Row(StrCell(TextLong), IntCell(0)) }

IrregularPositions(n) == {1, n}

Regular(p, n) == [i \in 1..n |-> StdRow(p, i)]

(* The contents of the files the model runs on: n regular rows, at most    *)
(* one of them replaced by an irregular row.                               *)
FileRows(n) ==
    { Regular(p, n) : p \in Patterns }
    \cup { [Regular(p, n) EXCEPT ![k] = r] :
             p \in Patterns, k \in IrregularPositions(n) \cap (1..n),
             r \in IrregularRows }

AllColumns == {"review", "sentiment"}

BlockSizes == {SmallBlock, MaxRows}

(* The files: present with both columns and any contents, or absent, or    *)
(* with a column missing.                                                  *)
Files ==
    { [exists |-> TRUE, columns |-> AllColumns, rows |-> rs, blocksize |-> b] :
        rs \in UNION { FileRows(n) : n \in 0..MaxRows }, b \in BlockSizes }
    \cup { [exists |-> e, columns |-> c, rows |-> Regular("balanced", SmallBlock),
            blocksize |-> MaxRows] :
             e \in BOOLEAN, c \in {{"review"}, {"sentiment"}, AllColumns} }

----------------------------------------------------------------------------
(* Helpers *)

Range(f) == { f[x] : x \in DOMAIN f }

Min(a, b) == IF a < b THEN a ELSE b

RECURSIVE Sum(_, _)
Sum(f, S) ==
    IF S = {} THEN 0
    ELSE LET x == CHOOSE x \in S : TRUE IN f[x] + Sum(f, S \ {x})

(* The sequences of k distinct elements of the sequence p, in any order *)
Arrangements(p, k) ==
    { [j \in 1..k |-> p[f[j]]] :
        f \in { g \in [1..k -> DOMAIN p] :
                  \A a, b \in 1..k : a # b => g[a] # g[b] } }

----------------------------------------------------------------------------
(* dd.read_csv: the file is cut into blocks of blocksize; every block is   *)
(* one partition, read when the dataframe is computed.  A partition is     *)
(* the sequence of the positions of its rows in the file.                  *)

Blocks(n, b) ==
    LET nblocks == IF n = 0 THEN 1 ELSE (n + b - 1) \div b
    IN  [k \in 1..nblocks |->
           [j \in 1..Min(b, n - (k - 1) * b) |-> (k - 1) * b + j]]

ReadCsvResult(f) ==
    [columns |-> f.columns,
     partitions |-> Blocks(Len(f.rows), f.blocksize),
     subset |-> {}]

(* pandas reads a partition: one record per row *)
ReadPartition(f, part) ==
    [j \in DOMAIN part |->
       [row |-> part[j], review |-> f.rows[part[j]].review,
        sentiment |-> f.rows[part[j]].sentiment]]

(* df.dropna(subset=['review', 'sentiment']) *)
dropna_subset == {"review", "sentiment"}

IsNa(cell) == cell.t = "na"

(* dropna that looks at the review column only *)
DropnaReviewOnly(rows, subset) ==
    LET keep(r) == "review" \in subset => ~IsNa(r.review)
    IN  SelectSeq(rows, keep)

Dropna(rows, subset) ==
    LET keep(r) == /\ ("review" \in subset => ~IsNa(r.review))
                   /\ ("sentiment" \in subset => ~IsNa(r.sentiment))
    IN  SelectSeq(rows, keep)

(* The rows of a partition after the operations recorded in the lazy       *)
(* dataframe d: read, then dropna.                                         *)
Cleaned(f, d, k) == Dropna(ReadPartition(f, d.partitions[k]), d.subset)

(* A sample size rounded down *)
SampleSizeFloor(len) == len \div FracDen

(* pandas' sample(frac=0.2) of one partition takes round(frac * len) rows; *)
(* 0.2 * len is never halfway between two integers.                        *)
SampleSize(len) == (2 * len + FracDen) \div (2 * FracDen)

(* dask samples every partition on its own, without replacement, and       *)
(* leaves an empty partition as it is.                                     *)
PartitionSamples(rows) ==
    IF Len(rows) = 0 THEN {rows}
    ELSE Arrangements(rows, SampleSize(Len(rows)))

(* compute() concatenates the sampled partitions in order *)
RECURSIVE Compute(_, _, _)
Compute(f, d, k) ==
    IF k > Len(d.partitions) THEN {<<>>}
    ELSE { a \o rest : a \in PartitionSamples(Cleaned(f, d, k)),
                       rest \in Compute(f, d, k + 1) }

----------------------------------------------------------------------------
(* Series: a sequence of [row, val], row being the position in the file of *)
(* the row the value comes from.                                           *)

(* astype(str) of a review cell *)
AsStr(cell) ==
    CASE cell.t = "str" -> cell.v
      [] cell.t = "na" -> (4 :> 1)
      [] OTHER -> (0 :> 1)

(* A coercion that puts 0 where the value is no integer *)
AsIntOrZero(cell) ==
    IF cell.t \in {"int", "digits", "num"}
    THEN [ok |-> TRUE, v |-> cell.v[1]]
    ELSE [ok |-> TRUE, v |-> 0]

(* astype(int) of a sentiment cell: [ok, v]; a missing value and a string  *)
(* that is no integer literal raise.                                       *)
AsInt(cell) ==
    IF cell.t \in {"int", "digits", "num"}
    THEN [ok |-> TRUE, v |-> cell.v[1]]
    ELSE [ok |-> FALSE, v |-> 0]

ReviewSeries(sample) ==
    [i \in DOMAIN sample |-> [row |-> sample[i].row, val |-> AsStr(sample[i].review)]]

LabelSeries(sample) ==
    [i \in DOMAIN sample |-> [row |-> sample[i].row, val |-> AsInt(sample[i].sentiment).v]]

Coercible(sample) == \A i \in DOMAIN sample : AsInt(sample[i].sentiment).ok

Values(series) == [i \in DOMAIN series |-> series[i].val]

----------------------------------------------------------------------------
(* train_test_split(X_raw, y, test_size=0.2, random_state=42) *)

(* n_test = ceil(test_size * n), n_train = n - n_test *)
NTest(n) == (n + TestSizeDen - 1) \div TestSizeDen

NTrain(n) == n - NTest(n)

IndexPermutations(n) ==
    { f \in [1..n -> 1..n] : \A a, b \in 1..n : a # b => f[a] # f[b] }

(* A split that passes no random_state: the generator is not seeded *)
SplitSeedNone == {}

(* The generator the split draws from: seeded with random_state *)
SplitSeed == {random_state}

(* The permutations a generator with this seed may return for n: the one   *)
(* it returned before when it is seeded, any when it is not.               *)
Draws(seed, n, drawn) ==
    LET known == { d \in drawn : d.seed \in seed /\ d.n = n }
    IN  IF known # {} THEN { d.perm : d \in known } ELSE IndexPermutations(n)

Drawn(seed, n, perm, drawn) ==
    drawn \cup { [seed |-> s, n |-> n, perm |-> perm] : s \in seed }

(* ShuffleSplit: the first n_test indices of the permutation are the test  *)
(* indices, the next n_train the train indices.                            *)
TestIndices(perm) == [i \in 1..NTest(Len(perm)) |-> perm[i]]

(* Train indices that start one position early *)
TrainIndicesOverlap(perm) ==
    [i \in 1..NTrain(Len(perm)) |-> perm[NTest(Len(perm)) + i - 1]]

TrainIndices(perm) ==
    [i \in 1..NTrain(Len(perm)) |-> perm[NTest(Len(perm)) + i]]

(* _safe_indexing *)
Take(series, indices) == [i \in DOMAIN indices |-> series[indices[i]]]

----------------------------------------------------------------------------
(* TfidfVectorizer(max_features=1000) *)

Lower(w) == IF w < 0 THEN -w ELSE w

(* The analyzer: lower-case, keep the words of two or more characters,     *)
(* count each term.                                                        *)
TermsOf(text) == { Lower(w) : w \in DOMAIN text } \ {0}

TermCount(text, t) ==
    IF t = 0 THEN 0
    ELSE (IF t \in DOMAIN text THEN text[t] ELSE 0)
         + (IF (-t) \in DOMAIN text THEN text[-t] ELSE 0)

(* The largest element of a non-empty set of terms; no term is above       *)
(* max_features + 5.                                                       *)
Largest(S) ==
    LET hi == max_features + 5
    IN  hi - (CHOOSE k \in 0..hi : (hi - k) \in S)

(* _limit_features: the limit terms with the highest total count stay.    *)
(* Among equal counts numpy's argsort decides; it is taken to keep the     *)
(* terms that come first in the sorted vocabulary.                         *)
RECURSIVE DropWorst(_, _, _)
DropWorst(tfs, terms, d) ==
    IF d <= 0 THEN terms
    ELSE LET counts == { tfs[t] : t \in terms }
             low == CHOOSE c \in counts : \A c2 \in counts : c <= c2
             worst == Largest({ t \in terms : tfs[t] = low })
         IN  DropWorst(tfs, terms \ {worst}, d - 1)

(* A vectorizer that ignores max_features *)
LimitFeaturesNone(tfs, terms, limit) == terms

LimitFeatures(tfs, terms, limit) ==
    DropWorst(tfs, terms, Cardinality(terms) - limit)

(* fit on the documents docs (a sequence of texts) *)
FitVectorizer(docs) ==
    LET terms == UNION { TermsOf(docs[i]) : i \in DOMAIN docs }
        tfs == [t \in terms |->
                  Sum([i \in DOMAIN docs |-> TermCount(docs[i], t)], DOMAIN docs)]
        vocabulary == LimitFeatures(tfs, terms, max_features)
    IN  [fitted |-> terms # {},
         vocabulary |-> vocabulary,
         n_docs |-> Len(docs),
         df |-> [t \in vocabulary |->
                   Cardinality({ i \in DOMAIN docs : TermCount(docs[i], t) > 0 })]]

Unfitted == [fitted |-> FALSE, vocabulary |-> {}, n_docs |-> 0, df |-> <<>>]

(* transform: one sparse row per document, over the terms of the           *)
(* vocabulary; an entry <<count, n_docs, df>> stands for the weight        *)
(* count * (ln((1 + n_docs) / (1 + df)) + 1) before the row is normalised. *)
Transform(vec, docs) ==
    [n_features |-> Cardinality(vec.vocabulary),
     rows |-> [i \in DOMAIN docs |->
                 [t \in TermsOf(docs[i]) \cap vec.vocabulary |->
                    <<TermCount(docs[i], t), vec.n_docs, vec.df[t]>>]]]

NoMatrix == [n_features |-> 0, rows |-> <<>>]

----------------------------------------------------------------------------
(* LogisticRegression() *)

Unfit == [fitted |-> FALSE, classes |-> {}, X |-> NoMatrix, y |-> <<>>]

Classes(labels) == Range(labels)

FitModel(X, labels) ==
    [fitted |-> Cardinality(Classes(labels)) >= 2,
     classes |-> Classes(labels), X |-> X, y |-> labels]

(* predict: one class of the fitted model per row.  The fitted decision    *)
(* function is a function of the training data and of the row: it gives    *)
(* equal rows equal labels, and the label it gave before.                  *)
Predictions(m, X, solved) ==
    { yp \in [DOMAIN X.rows -> m.classes] :
        /\ \A i, j \in DOMAIN X.rows : X.rows[i] = X.rows[j] => yp[i] = yp[j]
        /\ \A i \in DOMAIN X.rows : \A e \in solved :
             (e.X = m.X /\ e.y = m.y /\ e.row = X.rows[i]) => yp[i] = e.label }

Solved(m, X, yp, solved) ==
    solved \cup { [X |-> m.X, y |-> m.y, row |-> X.rows[i], label |-> yp[i]] :
                    i \in DOMAIN X.rows }

----------------------------------------------------------------------------
(* classification_report(y_test, y_pred) *)

Count(labels, l) == Cardinality({ i \in DOMAIN labels : labels[i] = l })

(* support: the number of true instances of a label *)
Support(y_true, l) == Count(y_true, l)

(* A report over the predicted labels only *)
ReportLabelsPredicted(y_true, predicted) == Range(predicted)

(* unique_labels(y_true, y_pred) *)
ReportLabels(y_true, predicted) == Range(y_true) \cup Range(predicted)

(* One row per label: precision is tp/predicted, recall tp/support; the    *)
(* accuracy, macro avg and weighted avg rows carry the summed support.     *)
ClassificationReport(y_true, predicted) ==
    LET labels == ReportLabels(y_true, predicted)
        rows == [l \in labels |->
                   [tp |-> Cardinality({ i \in DOMAIN y_true :
                                           y_true[i] = l /\ predicted[i] = l }),
                    predicted |-> Count(predicted, l),
                    support |-> Support(y_true, l)]]
        total == Sum([l \in labels |-> rows[l].support], labels)
    IN  [rows |-> rows,
         accuracy |-> [correct |-> Sum([l \in labels |-> rows[l].tp], labels),
                       support |-> total],
         macro_avg |-> [support |-> total],
         weighted_avg |-> [support |-> total]]

----------------------------------------------------------------------------
(* The cell: its statements in order *)

Order == <<"read_csv", "dropna", "sample", "astype", "train_test_split",
           "fit_transform", "transform", "fit", "predict", "report">>

(* A cell that starts over after its last statement *)
NextStmtLoop(stmt) ==
    LET k == CHOOSE i \in DOMAIN Order : Order[i] = stmt
    IN  Order[(k % Len(Order)) + 1]

NextStmt(stmt) ==
    LET k == CHOOSE i \in DOMAIN Order : Order[i] = stmt
    IN  IF k = Len(Order) THEN "done" ELSE Order[k + 1]

(* The statement completes and control passes to the next one *)
Completes(stmt) ==
    /\ pc' = NextStmt(stmt)
    /\ executed' = Append(executed, stmt)
    /\ failure' = failure

(* The statement raises: the exception is not caught, the cell stops *)
Raises(stmt) ==
    /\ pc' = "failed"
    /\ executed' = executed
    /\ failure' = stmt

NoRun == [ran |-> FALSE, pc |-> "none", executed |-> <<>>,
          X_raw |-> <<>>, y |-> <<>>,
          X_train_raw |-> <<>>, X_test_raw |-> <<>>, y_train |-> <<>>,
          y_test |-> <<>>, stdout |-> <<>>]

Fresh ==
    /\ written = {}
    /\ previous = NoRun
    /\ pc = "read_csv"
    /\ executed = <<>>
    /\ failure = "none"
    /\ mt19937 = {}
    /\ lbfgs = {}
    /\ df = [columns |-> {}, partitions |-> <<>>, subset |-> {}]
    /\ df_sample = <<>>
    /\ X_raw = <<>>
    /\ y = <<>>
    /\ X_train_raw = <<>>
    /\ X_test_raw = <<>>
    /\ y_train = <<>>
    /\ y_test = <<>>
    /\ vectorizer = Unfitted
    /\ X_train = NoMatrix
    /\ X_test = NoMatrix
    /\ model = Unfit
    /\ y_pred = <<>>
    /\ stdout = <<>>

Init ==
    /\ file \in Files
    /\ reruns = 0
    /\ Fresh

(* df = dd.read_csv("output.csv") *)
ReadCsv ==
    /\ pc = "read_csv"
    /\ IF file.exists
       THEN /\ df' = ReadCsvResult(file)
            /\ Completes("read_csv")
       ELSE /\ df' = df
            /\ Raises("read_csv")
    /\ UNCHANGED <<file, written, reruns, previous, mt19937, lbfgs, df_sample,
                   X_raw, y, X_train_raw, X_test_raw, y_train, y_test,
                   vectorizer, X_train, X_test, model, y_pred, stdout>>

(* df = df.dropna(subset=['review', 'sentiment']): recorded in the lazy   *)
(* dataframe; a column of the subset that the file lacks raises here.      *)
DropnaStmt ==
    /\ pc = "dropna"
    /\ IF dropna_subset \subseteq df.columns
       THEN /\ df' = [df EXCEPT !.subset = dropna_subset]
            /\ Completes("dropna")
       ELSE /\ df' = df
            /\ Raises("dropna")
    /\ UNCHANGED <<file, written, reruns, previous, mt19937, lbfgs, df_sample,
                   X_raw, y, X_train_raw, X_test_raw, y_train, y_test,
                   vectorizer, X_train, X_test, model, y_pred, stdout>>

(* df_sample = df.sample(frac=0.2).compute() *)
Sample ==
    /\ pc = "sample"
    /\ \E s \in Compute(file, df, 1) : df_sample' = s
    /\ Completes("sample")
    /\ UNCHANGED <<file, written, reruns, previous, mt19937, lbfgs, df,
                   X_raw, y, X_train_raw, X_test_raw, y_train, y_test,
                   vectorizer, X_train, X_test, model, y_pred, stdout>>

(* X_raw = df_sample['review'].astype(str)                                 *)
(* y = df_sample['sentiment'].astype(int)                                  *)
Astype ==
    /\ pc = "astype"
    /\ X_raw' = ReviewSeries(df_sample)
    /\ IF Coercible(df_sample)
       THEN /\ y' = LabelSeries(df_sample)
            /\ Completes("astype")
       ELSE /\ y' = y
            /\ Raises("astype")
    /\ UNCHANGED <<file, written, reruns, previous, mt19937, lbfgs, df,
                   df_sample, X_train_raw, X_test_raw, y_train, y_test,
                   vectorizer, X_train, X_test, model, y_pred, stdout>>

(* X_train_raw, X_test_raw, y_train, y_test = train_test_split(...):       *)
(* raises when the train set would be empty.                               *)
TrainTestSplit ==
    /\ pc = "train_test_split"
    /\ IF NTrain(Len(X_raw)) > 0
       THEN /\ \E perm \in Draws(SplitSeed, Len(X_raw), mt19937) :
                 /\ X_train_raw' = Take(X_raw, TrainIndices(perm))
                 /\ X_test_raw' = Take(X_raw, TestIndices(perm))
                 /\ y_train' = Take(y, TrainIndices(perm))
                 /\ y_test' = Take(y, TestIndices(perm))
                 /\ mt19937' = Drawn(SplitSeed, Len(X_raw), perm, mt19937)
            /\ Completes("train_test_split")
       ELSE /\ UNCHANGED <<X_train_raw, X_test_raw, y_train, y_test, mt19937>>
            /\ Raises("train_test_split")
    /\ UNCHANGED <<file, written, reruns, previous, lbfgs, df, df_sample,
                   X_raw, y, vectorizer, X_train, X_test, model, y_pred, stdout>>

(* A vectorizer fitted on the whole sample *)
FitCorpusAll == X_raw

(* The series the vectorizer is fitted on *)
FitCorpus == X_train_raw

(* vectorizer = TfidfVectorizer(max_features=1000)                         *)
(* X_train = vectorizer.fit_transform(X_train_raw): raises on an empty     *)
(* vocabulary.                                                             *)
FitTransform ==
    /\ pc = "fit_transform"
    /\ LET fit == FitVectorizer(Values(FitCorpus))
       IN  IF fit.fitted
           THEN /\ vectorizer' = fit
                /\ X_train' = Transform(fit, Values(FitCorpus))
                /\ Completes("fit_transform")
           ELSE /\ vectorizer' = Unfitted
                /\ X_train' = X_train
                /\ Raises("fit_transform")
    /\ UNCHANGED <<file, written, reruns, previous, mt19937, lbfgs, df,
                   df_sample, X_raw, y, X_train_raw, X_test_raw, y_train,
                   y_test, X_test, model, y_pred, stdout>>

(* X_test = vectorizer.transform(X_test_raw) *)
TransformTest ==
    /\ pc = "transform"
    /\ X_test' = Transform(vectorizer, Values(X_test_raw))
    /\ Completes("transform")
    /\ UNCHANGED <<file, written, reruns, previous, mt19937, lbfgs, df,
                   df_sample, X_raw, y, X_train_raw, X_test_raw, y_train,
                   y_test, vectorizer, X_train, model, y_pred, stdout>>

(* model = LogisticRegression(); model.fit(X_train, y_train): raises when  *)
(* the training labels hold fewer than two classes.                        *)
Fit ==
    /\ pc = "fit"
    /\ LET fit == FitModel(X_train, Values(y_train))
       IN  IF fit.fitted
           THEN /\ model' = fit
                /\ Completes("fit")
           ELSE /\ model' = Unfit
                /\ Raises("fit")
    /\ UNCHANGED <<file, written, reruns, previous, mt19937, lbfgs, df,
                   df_sample, X_raw, y, X_train_raw, X_test_raw, y_train,
                   y_test, vectorizer, X_train, X_test, y_pred, stdout>>

(* y_pred = model.predict(X_test) *)
Predict ==
    /\ pc = "predict"
    /\ \E yp \in Predictions(model, X_test, lbfgs) :
         /\ y_pred' = yp
         /\ lbfgs' = Solved(model, X_test, yp, lbfgs)
    /\ Completes("predict")
    /\ UNCHANGED <<file, written, reruns, previous, mt19937, df, df_sample,
                   X_raw, y, X_train_raw, X_test_raw, y_train, y_test,
                   vectorizer, X_train, X_test, model, stdout>>

(* What print(...) appends to the output of the cell *)
Printed(out, report) == Append(out, report)

(* A last statement that also stores the fitted model *)
SavedModel(files) == files \cup {"model.pkl"}

(* The files the last statement writes: none *)
Saved(files) == files

(* print(classification_report(y_test, y_pred)) *)
Report ==
    /\ pc = "report"
    /\ stdout' = Printed(stdout, ClassificationReport(Values(y_test), y_pred))
    /\ written' = Saved(written)
    /\ Completes("report")
    /\ UNCHANGED <<file, reruns, previous, mt19937, lbfgs, data>>

Next ==
    \/ ReadCsv
    \/ DropnaStmt
    \/ Sample
    \/ Astype
    \/ TrainTestSplit
    \/ FitTransform
    \/ TransformTest
    \/ Fit
    \/ Predict
    \/ Report

Spec == Init /\ [][Next]_vars

----------------------------------------------------------------------------
(* The cell executed again in the same kernel (the notebook records        *)
(* execution_count 4): the output of the cell is cleared, the names keep   *)
(* their values until the statements assign them again, the file is read   *)
(* again.                                                                  *)

Reexecute ==
    /\ reruns > 0
    /\ pc \in {"done", "failed"}
    /\ reruns' = reruns - 1
    /\ previous' = [ran |-> TRUE, pc |-> pc, executed |-> executed,
                    X_raw |-> X_raw, y |-> y,
                    X_train_raw |-> X_train_raw, X_test_raw |-> X_test_raw,
                    y_train |-> y_train, y_test |-> y_test, stdout |-> stdout]
    /\ pc' = "read_csv"
    /\ executed' = <<>>
    /\ failure' = "none"
    /\ stdout' = <<>>
    /\ UNCHANGED <<file, written, mt19937, lbfgs, data>>

PairFiles ==
    { [exists |-> TRUE, columns |-> AllColumns,
       rows |-> Regular("balanced", MaxRows), blocksize |-> b] : b \in BlockSizes }

InitPair ==
    /\ file \in PairFiles
    /\ reruns = 1
    /\ Fresh

NextPair == Next \/ Reexecute

SpecPair == InitPair /\ [][NextPair]_vars

----------------------------------------------------------------------------
(* Notions the properties use *)

Ran(stmt) == \E i \in DOMAIN executed : executed[i] = stmt

Present(r) == r.review.t # "na" /\ r.sentiment.t # "na"

RowsOf(series) == { series[i].row : i \in DOMAIN series }

Distinct(series) ==
    \A i, j \in DOMAIN series : i # j => series[i].row # series[j].row

(* The rows a series or the sample refers to hold no missing value *)
NoMissing(series) == \A i \in DOMAIN series : Present(file.rows[series[i].row])

(* The nine steps of the run; fit_transform and transform are the          *)
(* vectorize step.                                                         *)
Steps == <<"load", "drop-missing", "sample", "coerce types", "split",
           "vectorize", "train", "predict", "report">>

StepOf(stmt) ==
    CASE stmt = "read_csv" -> 1
      [] stmt = "dropna" -> 2
      [] stmt = "sample" -> 3
      [] stmt = "astype" -> 4
      [] stmt = "train_test_split" -> 5
      [] stmt \in {"fit_transform", "transform"} -> 6
      [] stmt = "fit" -> 7
      [] stmt = "predict" -> 8
      [] stmt = "report" -> 9

----------------------------------------------------------------------------
(* C1: the statements run in the order of the cell, each at most once and  *)
(* each only after the one before it has completed: what has been executed *)
(* is always an initial part of the cell, the statement to run next is     *)
(* the one after it, and the steps of the statements never go backwards.   *)
C1_FixedOrder ==
    /\ Len(executed) <= Len(Order)
    /\ \A i \in DOMAIN executed : executed[i] = Order[i]
    /\ \A i, j \in DOMAIN executed :
         i < j => /\ executed[i] # executed[j]
                  /\ StepOf(executed[i]) <= StepOf(executed[j])
    /\ pc \in {"failed"} \cup
              { IF Len(executed) = Len(Order) THEN "done"
                ELSE Order[Len(executed) + 1] }
    /\ pc = "failed" => failure = Order[Len(executed) + 1]
    /\ { StepOf(Order[i]) : i \in DOMAIN Order } = DOMAIN Steps

C1_Witness == pc = "done" /\ executed = Order

(* C2: no row with a missing review or sentiment reaches the sample, the   *)
(* coerced series, the partitions or the evaluation, and once dropna is    *)
(* recorded every row of the file with both values is in the cleaned       *)
(* dataframe the sample is drawn from.                                     *)
C2_MissingDropped ==
    /\ \A i \in DOMAIN df_sample : Present(df_sample[i])
    /\ \A i \in DOMAIN df_sample : Present(file.rows[df_sample[i].row])
    /\ NoMissing(X_raw) /\ NoMissing(y)
    /\ NoMissing(X_train_raw) /\ NoMissing(X_test_raw)
    /\ NoMissing(y_train) /\ NoMissing(y_test)
    /\ Ran("dropna") =>
         \A n \in DOMAIN file.rows :
           Present(file.rows[n]) <=>
             \E k \in DOMAIN df.partitions :
               \E j \in DOMAIN Cleaned(file, df, k) : Cleaned(file, df, k)[j].row = n

C2_Witness ==
    /\ Ran("astype")
    /\ Len(df_sample) > 0
    /\ \E n \in DOMAIN file.rows : file.rows[n].sentiment.t = "na"


(* C3: once the split has run, the train and the test partition are        *)
(* disjoint and hold every sampled row exactly once, the test partition    *)
(* holds a fifth of the sample rounded up and the train partition the      *)
(* rest, and every review is in the same partition, at the same position,  *)
(* as the label of its row.                                                *)
C3_SplitPartitions ==
    Ran("train_test_split") =>
      LET n == Len(X_raw)
      IN  /\ Distinct(X_train_raw) /\ Distinct(X_test_raw)
          /\ RowsOf(X_train_raw) \cap RowsOf(X_test_raw) = {}
          /\ RowsOf(X_train_raw) \cup RowsOf(X_test_raw) = RowsOf(X_raw)
          /\ Len(X_train_raw) + Len(X_test_raw) = n
          /\ TestSizeDen * Len(X_test_raw) >= n
          /\ TestSizeDen * (Len(X_test_raw) - 1) < n
          /\ Len(y_train) = Len(X_train_raw) /\ Len(y_test) = Len(X_test_raw)
          /\ \A i \in DOMAIN X_train_raw :
               /\ y_train[i].row = X_train_raw[i].row
               /\ \E j \in DOMAIN X_raw :
                    X_raw[j] = X_train_raw[i] /\ y[j] = y_train[i]
          /\ \A i \in DOMAIN X_test_raw :
               /\ y_test[i].row = X_test_raw[i].row
               /\ \E j \in DOMAIN X_raw :
                    X_raw[j] = X_test_raw[i] /\ y[j] = y_test[i]

C3_Witness ==
    /\ Ran("train_test_split")
    /\ Len(X_train_raw) = 2 /\ Len(X_test_raw) = 1
    /\ y_train[1].val # y_train[2].val

C5_FeatureCap ==
    /\ Ran("fit_transform") =>
         /\ X_train.n_features <= max_features
         /\ X_train.n_features = Cardinality(vectorizer.vocabulary)
         /\ \A i \in DOMAIN X_train.rows :
              DOMAIN X_train.rows[i] \subseteq vectorizer.vocabulary
    /\ Ran("transform") =>
         /\ X_test.n_features = X_train.n_features
         /\ \A i \in DOMAIN X_test.rows :
              DOMAIN X_test.rows[i] \subseteq vectorizer.vocabulary

(* the training reviews hold more than max_features distinct terms *)
C5_Witness ==
    /\ Ran("transform")
    /\ Cardinality(UNION { TermsOf(X_train_raw[i].val) : i \in DOMAIN X_train_raw })
         > max_features
    /\ X_train.n_features = max_features


(* What the run has put out, in every state *)
C6_OutputState ==
    /\ written = {}
    /\ Len(stdout) <= 1
    /\ Len(stdout) = 1 =>
         /\ Ran("predict") /\ Ran("report")
         /\ stdout[1] = ClassificationReport(Values(y_test), y_pred)
    /\ Ran("report") <=> Len(stdout) = 1
    /\ pc = "done" => Len(stdout) = 1

(* C6: the run prints one classification report, once and only after the   *)
(* prediction, and a completed run has printed it; the run writes no file  *)
(* and no step changes output.csv.                                         *)
C6_OnlyReport == []C6_OutputState /\ [][file' = file /\ written' = written]_vars

C6_Witness == pc = "done" /\ Len(stdout) = 1 /\ written = {}

(* No statement gets past an input it cannot handle, and a failed run has  *)
(* stopped before the statement that failed and has printed nothing.       *)
C7_FailureState ==
    /\ ~file.exists => executed = <<>> /\ pc \in {"read_csv", "failed"}
    /\ ~(AllColumns \subseteq file.columns) => ~Ran("dropna")
    /\ Ran("astype") =>
         \A i \in DOMAIN df_sample : df_sample[i].sentiment.t \in {"int", "digits", "num"}
    /\ Ran("train_test_split") => Len(df_sample) >= 2 /\ Len(X_train_raw) >= 1
    /\ Ran("fit_transform") =>
         \E i \in DOMAIN X_train_raw : TermsOf(X_train_raw[i].val) # {}
    /\ Ran("fit") => Cardinality({ y_train[i].val : i \in DOMAIN y_train }) >= 2
    /\ pc = "failed" =>
         /\ failure = Order[Len(executed) + 1]
         /\ ~Ran(failure)
         /\ stdout = <<>>
    /\ pc # "failed" => failure = "none"

(* C7: a run on malformed input stops at the statement that fails: the     *)
(* statements after it never run, nothing runs once the run has failed,    *)
(* nothing is printed, and no statement gets past an input it cannot       *)
(* handle (no value is put in its place).                                  *)
C7_StopsAtFailure == []C7_FailureState /\ [][pc # "failed"]_vars

C7_Witness ==
    /\ pc = "failed"
    /\ failure = "astype"
    /\ \E i \in DOMAIN df_sample : df_sample[i].sentiment.t = "str"

(* The number of rows of the cleaned dataframe *)
CleanedCount ==
    Sum([k \in DOMAIN df.partitions |-> Len(Cleaned(file, df, k))],
        DOMAIN df.partitions)

(* The rows of the sample that come from partition k *)
SampledFrom(k) ==
    { i \in DOMAIN df_sample :
        \E j \in DOMAIN df.partitions[k] : df.partitions[k][j] = df_sample[i].row }

SampleOfCleaned ==
    /\ Distinct(df_sample)
    /\ \A i \in DOMAIN df_sample :
         \E k \in DOMAIN df.partitions :
           \E j \in DOMAIN Cleaned(file, df, k) : Cleaned(file, df, k)[j] = df_sample[i]

(* C8 as claimed: the sample holds rows of the cleaned dataframe, none     *)
(* twice, and its size is 20% of the number of cleaned rows (to the        *)
(* integer below or above).                                                *)
C8_Claimed ==
    Ran("sample") =>
      /\ SampleOfCleaned
      /\ FracDen * Len(df_sample) > CleanedCount - FracDen
      /\ FracDen * Len(df_sample) < CleanedCount + FracDen

(* C8 amended: the sample holds rows of the cleaned dataframe, none twice, *)
(* and from every partition of the dataframe it holds 20% of the           *)
(* partition's cleaned rows rounded to the nearest integer.                *)
C8_SamplePerPartition ==
    Ran("sample") =>
      /\ SampleOfCleaned
      /\ \A k \in DOMAIN df.partitions :
           LET taken == Cardinality(SampledFrom(k))
               len == Len(Cleaned(file, df, k))
           IN  /\ 2 * FracDen * taken <= 2 * len + FracDen
               /\ 2 * FracDen * taken > 2 * len - FracDen

C8_Witness ==
    /\ Ran("sample")
    /\ Len(df.partitions) = 3
    /\ \A k \in DOMAIN df.partitions : Cardinality(SampledFrom(k)) = 1
    /\ FracDen * Len(df_sample) >= CleanedCount + FracDen

(* C9: the cell executed twice: when the second execution holds the same   *)
(* sampled rows in the same order as the first, its split gives the same   *)
(* train and test partitions, and its printed report is the same.          *)
C9_SameSplit ==
    (/\ previous.ran
     /\ \E i \in DOMAIN previous.executed : previous.executed[i] = "train_test_split"
     /\ Ran("train_test_split")
     /\ previous.X_raw = X_raw /\ previous.y = y)
    => /\ previous.X_train_raw = X_train_raw
       /\ previous.X_test_raw = X_test_raw
       /\ previous.y_train = y_train
       /\ previous.y_test = y_test
       /\ (previous.pc = "done" /\ pc = "done") => previous.stdout = stdout

C9_Witness ==
    /\ previous.ran /\ previous.pc = "done" /\ pc = "done"
    /\ previous.X_raw = X_raw /\ previous.y = y
    /\ Len(X_raw) = 3
    /\ previous.stdout = stdout

(* What the vectorizer and the classifier hold, in every state *)
C10_FittedOnTrain ==
    /\ ~vectorizer.fitted =>
         X_train = NoMatrix /\ X_test = NoMatrix /\ ~Ran("fit_transform")
    /\ Ran("fit_transform") =>
         /\ Ran("train_test_split") /\ vectorizer.fitted
         /\ vectorizer.n_docs = Len(X_train_raw)
         /\ \A t \in vectorizer.vocabulary :
              /\ \E i \in DOMAIN X_train_raw : TermCount(X_train_raw[i].val, t) > 0
              /\ vectorizer.df[t] =
                   Cardinality({ i \in DOMAIN X_train_raw :
                                   TermCount(X_train_raw[i].val, t) > 0 })
    /\ ~model.fitted => y_pred = <<>> /\ ~Ran("predict")
    /\ model.fitted =>
         /\ model.X = X_train /\ model.y = Values(y_train)
         /\ \A i \in DOMAIN y_pred : \E j \in DOMAIN y_train : y_pred[i] = y_train[j].val

(* C10: the vocabulary holds only terms of the training reviews, the       *)
(* statement that transforms the test reviews leaves the vectorizer as it  *)
(* is, the vectorizer is fitted before either matrix exists, and the       *)
(* classifier is fitted on the training matrix and labels, before any      *)
(* prediction, and predicts only classes of the training labels.           *)
C10_TrainOnly ==
    /\ []C10_FittedOnTrain
    /\ [][pc = "transform" => vectorizer' = vectorizer]_vars

(* a test review holds a term that no training review holds *)
C10_Witness ==
    /\ Ran("transform")
    /\ \E i \in DOMAIN X_test_raw :
         \E t \in TermsOf(X_test_raw[i].val) :
           /\ t \notin vectorizer.vocabulary
           /\ \A j \in DOMAIN X_train_raw : TermCount(X_train_raw[j].val, t) = 0

====
